---------------------------- MODULE Spec2Model ----------------------------
(***************************************************************************)
(* A* Pathfinding Visualizer (src/astar_script.js, class AStarVisualizer). *)
(*                                                                         *)
(* The state is the visualizer object's fields.  One action is one task of *)
(* the browser's event loop: a DOM event handler run to its end, or a      *)
(* search loop run from its start (or from the expiry of its setTimeout)   *)
(* to its next `await` or to its return.  Particles are rendering only and *)
(* are left out.                                                           *)
(***************************************************************************)
EXTENDS Integers, Sequences, FiniteSets, TLC

\* ------------------------------------------------------------- bounds
\* Canvas sizes (in cells) the interactive specification is checked for.
UiCols == 2
UiRows == 2
\* Canvas sizes (in cells) the uninterrupted-search specification is checked for.
SearchCols == 3
SearchRows == 3
\* Search loops that may be suspended on their animation delay at once.
MaxTimers == 2
\* Side of the square obstacle-free canvas of the corner-to-corner scenario.
ScenarioSize == 10
\* Moving obstacles one spawn creates.
SpawnCount == 2

VARIABLES
    cols,               \* this.cols
    rows,               \* this.rows
    grid,               \* this.grid: node <<x, y>> -> the Node's fields
    openSet,            \* this.openSet
    closedSet,          \* this.closedSet
    path,               \* this.path
    start,              \* this.start (a node or null)
    end,                \* this.end (a node or null)
    isPlacingStart,     \* this.isPlacingStart
    isDrawingObstacles, \* this.isDrawingObstacles
    isRunning,          \* this.isRunning
    animationEnabled,   \* this.animationEnabled
    startBtnDisabled,   \* document.getElementById('startBtn').disabled
    timers,             \* the search loops suspended on `await setTimeout`, in expiry order
    report,             \* what the last task reported: an alert, or a path
    movingObstacles     \* the moving blockers (none in src/astar_script.js)

vars == <<cols, rows, grid, openSet, closedSet, path, start, end, isPlacingStart,
          isDrawingObstacles, isRunning, animationEnabled, startBtnDisabled,
          timers, report, movingObstacles>>

\* ------------------------------------------------------------- nodes
null == <<>>

Nodes == (0 .. cols - 1) \X (0 .. rows - 1)

\* new Node(x, y): the fields other than the coordinates, which index the grid.
Node == [g |-> 0, h |-> 0, f |-> 0, parent |-> null,
         isObstacle |-> FALSE, isStart |-> FALSE, isEnd |-> FALSE,
         isPath |-> FALSE, isExplored |-> FALSE, isFrontier |-> FALSE]

initGrid(c, r) == [n \in (0 .. c - 1) \X (0 .. r - 1) |-> Node]

Abs(i) == IF i < 0 THEN -i ELSE i

heuristicChebyshev(a, b) ==
    IF Abs(a[1] - b[1]) > Abs(a[2] - b[2]) THEN Abs(a[1] - b[1]) ELSE Abs(a[2] - b[2])

heuristic(a, b) == Abs(a[1] - b[1]) + Abs(a[2] - b[2])

directionsDownFirst == << <<-1, 0>>, <<1, 0>>, <<0, 1>>, <<0, -1>> >>

directionsWithDiagonal == << <<-1, 0>>, <<1, 0>>, <<0, -1>>, <<1, 1>> >>

\* getNeighbors' directions array.
directions == << <<-1, 0>>, <<1, 0>>, <<0, -1>>, <<0, 1>> >>

getNeighborsIgnoringObstacles(gr, node) ==
    LET cand == [i \in 1 .. 4 |-> <<node[1] + directions[i][1], node[2] + directions[i][2]>>]
        inside(c) == c[1] >= 0 /\ c[1] < cols /\ c[2] >= 0 /\ c[2] < rows
    IN  SelectSeq(cand, inside)

getNeighbors(gr, node) ==
    LET cand == [i \in 1 .. 4 |-> <<node[1] + directions[i][1], node[2] + directions[i][2]>>]
        valid(c) == /\ c[1] >= 0 /\ c[1] < cols /\ c[2] >= 0 /\ c[2] < rows
                    /\ ~gr[c].isObstacle
    IN  SelectSeq(cand, valid)

includes(seq, x) == \E i \in 1 .. Len(seq) : seq[i] = x

\* Array.prototype.splice(index, 1)
splice(seq, index) == SubSeq(seq, 1, index - 1) \o SubSeq(seq, index + 1, Len(seq))

\* ------------------------------------------------------- program state
\* The fields a search loop or a reset writes, as one record.
This == [grid |-> grid, openSet |-> openSet, closedSet |-> closedSet, path |-> path,
         isRunning |-> isRunning, startBtnDisabled |-> startBtnDisabled,
         report |-> "none", pc |-> "run"]

clearPathClearingObstacles(s) ==
    [s EXCEPT !.openSet = <<>>, !.closedSet = <<>>, !.path = <<>>,
              !.grid = [n \in DOMAIN s.grid |->
                          [s.grid[n] EXCEPT !.f = 0, !.g = 0, !.h = 0, !.parent = null,
                                            !.isPath = FALSE, !.isExplored = FALSE,
                                            !.isFrontier = FALSE, !.isObstacle = FALSE]],
              !.isRunning = FALSE, !.startBtnDisabled = FALSE]

clearPathKeepingClosedSet(s) ==
    [s EXCEPT !.openSet = <<>>, !.path = <<>>,
              !.grid = [n \in DOMAIN s.grid |->
                          [s.grid[n] EXCEPT !.f = 0, !.g = 0, !.h = 0, !.parent = null,
                                            !.isPath = FALSE, !.isExplored = FALSE,
                                            !.isFrontier = FALSE]],
              !.isRunning = FALSE, !.startBtnDisabled = FALSE]

clearPathKeepingParents(s) ==
    [s EXCEPT !.openSet = <<>>, !.closedSet = <<>>, !.path = <<>>,
              !.grid = [n \in DOMAIN s.grid |->
                          [s.grid[n] EXCEPT !.f = 0, !.g = 0, !.h = 0,
                                            !.isPath = FALSE, !.isExplored = FALSE,
                                            !.isFrontier = FALSE]],
              !.isRunning = FALSE, !.startBtnDisabled = FALSE]

\* clearPath()
clearPath(s) ==
    [s EXCEPT !.openSet = <<>>, !.closedSet = <<>>, !.path = <<>>,
              !.grid = [n \in DOMAIN s.grid |->
                          [s.grid[n] EXCEPT !.f = 0, !.g = 0, !.h = 0, !.parent = null,
                                            !.isPath = FALSE, !.isExplored = FALSE,
                                            !.isFrontier = FALSE]],
              !.isRunning = FALSE, !.startBtnDisabled = FALSE]

\* reconstructPath: the parent chain of `current`, start first.
RECURSIVE parentChain(_, _, _)
parentChain(gr, current, acc) ==
    IF current = null THEN acc
    ELSE parentChain(gr, gr[current].parent, <<current>> \o acc)

reconstructPath(s, current) ==
    LET p == parentChain(s.grid, current, <<>>)
        onPath == {p[i] : i \in 1 .. Len(p)}
    IN  [s EXCEPT !.path = p,
                  !.grid = [n \in DOMAIN s.grid |->
                              IF n \in onPath /\ ~s.grid[n].isStart /\ ~s.grid[n].isEnd
                              THEN [s.grid[n] EXCEPT !.isPath = TRUE]
                              ELSE s.grid[n]]]

\* The scan for the lowest f: index i replaces the current best only when strictly lower.
RECURSIVE lowestIndexGreatest(_, _, _, _)
lowestIndexGreatest(gr, open, i, currentIndex) ==
    IF i > Len(open) THEN currentIndex
    ELSE IF gr[open[i]].f > gr[open[currentIndex]].f
         THEN lowestIndexGreatest(gr, open, i + 1, i)
         ELSE lowestIndexGreatest(gr, open, i + 1, currentIndex)

lowestIndexNewest(gr, open, i, currentIndex) == Len(open)

RECURSIVE lowestIndexLastTie(_, _, _, _)
lowestIndexLastTie(gr, open, i, currentIndex) ==
    IF i > Len(open) THEN currentIndex
    ELSE IF gr[open[i]].f <= gr[open[currentIndex]].f
         THEN lowestIndexLastTie(gr, open, i + 1, i)
         ELSE lowestIndexLastTie(gr, open, i + 1, currentIndex)

RECURSIVE lowestIndex(_, _, _, _)
lowestIndex(gr, open, i, currentIndex) ==
    IF i > Len(open) THEN currentIndex
    ELSE IF gr[open[i]].f < gr[open[currentIndex]].f
         THEN lowestIndex(gr, open, i + 1, i)
         ELSE lowestIndex(gr, open, i + 1, currentIndex)

RECURSIVE checkNeighborsPushingAgain(_, _, _, _)
checkNeighborsPushingAgain(s, current, neighbors, i) ==
    IF i > Len(neighbors) THEN s
    ELSE
      LET neighbor == neighbors[i]
          tentativeG == s.grid[current].g + 1
          hh == heuristic(neighbor, end)
          s2 == [s EXCEPT !.openSet = Append(s.openSet, neighbor),
                          !.grid[neighbor].isFrontier = TRUE,
                          !.grid[neighbor].parent = current,
                          !.grid[neighbor].g = tentativeG,
                          !.grid[neighbor].h = hh,
                          !.grid[neighbor].f = tentativeG + hh]
      IN  IF includes(s.closedSet, neighbor)
          THEN checkNeighborsPushingAgain(s, current, neighbors, i + 1)
          ELSE checkNeighborsPushingAgain(s2, current, neighbors, i + 1)

RECURSIVE checkNeighborsRecostingClosed(_, _, _, _)
checkNeighborsRecostingClosed(s, current, neighbors, i) ==
    IF i > Len(neighbors) THEN s
    ELSE
      LET neighbor == neighbors[i]
          tentativeG == s.grid[current].g + 1
          isNew == ~includes(s.openSet, neighbor)
          s1 == IF isNew
                THEN [s EXCEPT !.openSet = Append(s.openSet, neighbor),
                               !.grid[neighbor].isFrontier = TRUE]
                ELSE s
          hh == heuristic(neighbor, end)
          s2 == [s1 EXCEPT !.grid[neighbor].parent = current,
                           !.grid[neighbor].g = tentativeG,
                           !.grid[neighbor].h = hh,
                           !.grid[neighbor].f = tentativeG + hh]
      IN  IF includes(s.closedSet, neighbor)
          THEN checkNeighborsRecostingClosed([s EXCEPT !.grid[neighbor].g = tentativeG,
                                                       !.grid[neighbor].f = tentativeG + hh],
                                             current, neighbors, i + 1)
          ELSE IF ~isNew /\ tentativeG >= s.grid[neighbor].g
               THEN checkNeighborsRecostingClosed(s, current, neighbors, i + 1)
               ELSE checkNeighborsRecostingClosed(s2, current, neighbors, i + 1)

\* The body of `for (const neighbor of neighbors)`, from the i-th neighbor on.
RECURSIVE checkNeighbors(_, _, _, _)
checkNeighbors(s, current, neighbors, i) ==
    IF i > Len(neighbors) THEN s
    ELSE
      LET neighbor == neighbors[i]
          tentativeG == s.grid[current].g + 1
          isNew == ~includes(s.openSet, neighbor)
          s1 == IF isNew
                THEN [s EXCEPT !.openSet = Append(s.openSet, neighbor),
                               !.grid[neighbor].isFrontier = TRUE]
                ELSE s
          hh == heuristic(neighbor, end)
          s2 == [s1 EXCEPT !.grid[neighbor].parent = current,
                           !.grid[neighbor].g = tentativeG,
                           !.grid[neighbor].h = hh,
                           !.grid[neighbor].f = tentativeG + hh]
      IN  IF includes(s.closedSet, neighbor) THEN checkNeighbors(s, current, neighbors, i + 1)
          ELSE IF ~isNew /\ tentativeG >= s.grid[neighbor].g
               THEN checkNeighbors(s, current, neighbors, i + 1)
               ELSE checkNeighbors(s2, current, neighbors, i + 1)

\* One iteration of the while loop, up to the animation delay.
expand(s) ==
    LET currentIndex == lowestIndex(s.grid, s.openSet, 2, 1)
        current == s.openSet[currentIndex]
        s1 == [s EXCEPT !.openSet = splice(s.openSet, currentIndex),
                        !.closedSet = Append(s.closedSet, current),
                        !.grid[current].isExplored = TRUE]
    IN  IF current = end
        THEN [reconstructPath(s1, current) EXCEPT !.isRunning = FALSE,
                                                  !.startBtnDisabled = FALSE,
                                                  !.report = "success",
                                                  !.pc = "returned"]
        ELSE checkNeighbors(s1, current, getNeighbors(s1.grid, current), 1)

searchLoopAlwaysAwaiting(s) ==
    IF Len(s.openSet) = 0
    THEN [s EXCEPT !.report = "nopath", !.isRunning = FALSE,
                   !.startBtnDisabled = FALSE, !.pc = "returned"]
    ELSE LET t == expand(s)
         IN  IF t.pc = "returned" THEN t ELSE [t EXCEPT !.pc = "await"]

RECURSIVE searchLoopLeavingRunning(_)
searchLoopLeavingRunning(s) ==
    IF Len(s.openSet) = 0
    THEN [s EXCEPT !.report = "nopath", !.startBtnDisabled = FALSE, !.pc = "returned"]
    ELSE LET t == expand(s)
         IN  IF t.pc = "returned" THEN t
             ELSE IF animationEnabled THEN [t EXCEPT !.pc = "await"]
             ELSE searchLoopLeavingRunning(t)

\* The while loop from its test: to the next await (pc = "await") or to the return.
RECURSIVE searchLoop(_)
searchLoop(s) ==
    IF Len(s.openSet) = 0
    THEN [s EXCEPT !.report = "nopath", !.isRunning = FALSE,
                   !.startBtnDisabled = FALSE, !.pc = "returned"]
    ELSE LET t == expand(s)
         IN  IF t.pc = "returned" THEN t
             ELSE IF animationEnabled THEN [t EXCEPT !.pc = "await"]
             ELSE searchLoop(t)

\* startPathfinding past its endpoint check: clearPath, the open set seeded with
\* the start node, then the loop up to the first await or the return.
beginSearch(s) ==
    LET c  == clearPath(s)
        hh == heuristic(start, end)
        s1 == [c EXCEPT !.isRunning = TRUE, !.startBtnDisabled = TRUE,
                        !.openSet = <<start>>,
                        !.grid[start].g = 0, !.grid[start].h = hh, !.grid[start].f = hh]
    IN  searchLoop(s1)

startPathfindingSilent(s) ==
    IF start = null \/ end = null
    THEN [s EXCEPT !.pc = "returned"]
    ELSE beginSearch(s)

\* startPathfinding(), up to the first await or the return.
startPathfinding(s) ==
    IF start = null \/ end = null
    THEN [s EXCEPT !.report = "missing", !.pc = "returned"]
    ELSE beginSearch(s)

\* The assignment of a loop's or a reset's result to the object's fields.
Store(s) ==
    /\ grid' = s.grid
    /\ openSet' = s.openSet
    /\ closedSet' = s.closedSet
    /\ path' = s.path
    /\ isRunning' = s.isRunning
    /\ startBtnDisabled' = s.startBtnDisabled
    /\ report' = s.report


\* ------------------------------------------------------------- handlers
clearStartEndReferencesOnly(gr) == gr

\* clearStartEnd(): the flags; the callers set the references and isPlacingStart.
clearStartEnd(gr) ==
    LET g1 == IF start # null THEN [gr EXCEPT ![start].isStart = FALSE] ELSE gr
    IN  IF end # null THEN [g1 EXCEPT ![end].isEnd = FALSE] ELSE g1

\* A reset button was clicked: every suspended loop has a reset to observe.
resetSeen(ts) == [i \in DOMAIN ts |-> [ts[i] EXCEPT !.reset = TRUE]]

canPlaceEndAnywhere(node) == TRUE

\* handleMouseDown's test before it makes a node the end: "check that it isnt on start".
canPlaceEnd(node) == ~grid[node].isStart

\* canvas 'mousedown' at grid position pos.
handleMouseDown(pos) ==
    LET inBounds == pos[1] >= 0 /\ pos[1] < cols /\ pos[2] >= 0 /\ pos[2] < rows
    IN
    /\ report' = "none"
    /\ UNCHANGED <<cols, rows, movingObstacles, openSet, closedSet, path, isRunning, animationEnabled,
                   startBtnDisabled, timers>>
    /\ IF isRunning \/ ~inBounds
       THEN UNCHANGED <<grid, start, end, isPlacingStart, isDrawingObstacles>>
       ELSE IF isPlacingStart
       THEN /\ grid' = [clearStartEnd(grid) EXCEPT ![pos].isStart = TRUE]
            /\ start' = pos
            /\ end' = null
            /\ isPlacingStart' = FALSE
            /\ UNCHANGED isDrawingObstacles
       ELSE IF start = null \/ (start # null /\ end = null)
       THEN IF canPlaceEnd(pos)
            THEN /\ grid' = [grid EXCEPT ![pos].isEnd = TRUE]
                 /\ end' = pos
                 /\ UNCHANGED <<start, isPlacingStart, isDrawingObstacles>>
            ELSE UNCHANGED <<grid, start, end, isPlacingStart, isDrawingObstacles>>
       ELSE IF ~grid[pos].isStart /\ ~grid[pos].isEnd
            THEN /\ grid' = [grid EXCEPT ![pos].isObstacle = ~grid[pos].isObstacle]
                 /\ isDrawingObstacles' = TRUE
                 /\ UNCHANGED <<start, end, isPlacingStart>>
            ELSE UNCHANGED <<grid, start, end, isPlacingStart, isDrawingObstacles>>

mouseMoveIgnoredUnlessDrawing == ~isDrawingObstacles

\* handleMouseMove's early return: not drawing, or a search is running.
mouseMoveIgnored == ~isDrawingObstacles \/ isRunning

\* canvas 'mousemove' at grid position pos.
handleMouseMove(pos) ==
    LET inBounds == pos[1] >= 0 /\ pos[1] < cols /\ pos[2] >= 0 /\ pos[2] < rows
    IN
    /\ report' = "none"
    /\ UNCHANGED <<cols, rows, movingObstacles, openSet, closedSet, path, start, end, isPlacingStart,
                   isDrawingObstacles, isRunning, animationEnabled, startBtnDisabled, timers>>
    /\ IF mouseMoveIgnored \/ ~inBounds
       THEN UNCHANGED grid
       ELSE IF ~grid[pos].isStart /\ ~grid[pos].isEnd
            THEN grid' = [grid EXCEPT ![pos].isObstacle = TRUE]
            ELSE UNCHANGED grid

\* The positions a mouse event on the canvas can carry: the cells, and one column
\* and one row past them (a canvas whose size is no multiple of gridSize).
MousePositions == (0 .. cols) \X (0 .. rows)

MouseDown == \E pos \in MousePositions : handleMouseDown(pos)

MouseMove == \E pos \in MousePositions : handleMouseMove(pos)

\* canvas 'mouseup'
MouseUp ==
    /\ isDrawingObstacles' = FALSE
    /\ report' = "none"
    /\ UNCHANGED <<cols, rows, movingObstacles, grid, openSet, closedSet, path, start, end, isPlacingStart,
                   isRunning, animationEnabled, startBtnDisabled, timers>>

\* 'clearBtn' click
ClearPath ==
    /\ Store(clearPath(This))
    /\ timers' = resetSeen(timers)
    /\ UNCHANGED <<cols, rows, movingObstacles, start, end, isPlacingStart, isDrawingObstacles,
                   animationEnabled>>

clearAllKeepingMarks(s) ==
    LET c == clearPath(s)
        g1 == clearStartEnd(c.grid)
    IN  [c EXCEPT !.grid = [n \in DOMAIN g1 |->
                              [g1[n] EXCEPT !.isObstacle = FALSE,
                                            !.isPath = s.grid[n].isPath,
                                            !.isExplored = s.grid[n].isExplored,
                                            !.isFrontier = s.grid[n].isFrontier]]]

clearAllTogglingObstacles(s) ==
    LET c == clearPath(s)
        g1 == clearStartEnd(c.grid)
    IN  [c EXCEPT !.grid = [n \in DOMAIN g1 |->
                              [g1[n] EXCEPT !.isObstacle = ~g1[n].isObstacle]]]

\* clearAll(): clearPath, clearStartEnd, then every obstacle flag cleared.
clearAll(s) ==
    LET c == clearPath(s)
        g1 == clearStartEnd(c.grid)
    IN  [c EXCEPT !.grid = [n \in DOMAIN g1 |-> [g1[n] EXCEPT !.isObstacle = FALSE]]]

\* 'clearAllBtn' click
ClearAll ==
    /\ Store(clearAll(This))
    /\ start' = null
    /\ end' = null
    /\ isPlacingStart' = TRUE
    /\ timers' = resetSeen(timers)
    /\ UNCHANGED <<cols, rows, movingObstacles, isDrawingObstacles, animationEnabled>>

\* generateRandomObstacles() where Math.random() < 0.3 came out true exactly for `hit`.
generateRandomObstacles(s, hit) ==
    LET c == clearPath(s)
    IN  [c EXCEPT !.grid = [n \in DOMAIN c.grid |->
                              IF ~c.grid[n].isStart /\ ~c.grid[n].isEnd /\ n \in hit
                              THEN [c.grid[n] EXCEPT !.isObstacle = TRUE]
                              ELSE c.grid[n]]]

\* 'randomObstaclesBtn' click
RandomObstacles ==
    \E hit \in SUBSET Nodes :
        /\ Store(generateRandomObstacles(This, hit))
        /\ UNCHANGED <<cols, rows, movingObstacles, start, end, isPlacingStart, isDrawingObstacles,
                       animationEnabled, timers>>

\* 'animateBtn' click
ToggleAnimation ==
    /\ animationEnabled' = ~animationEnabled
    /\ report' = "none"
    /\ UNCHANGED <<cols, rows, movingObstacles, grid, openSet, closedSet, path, start, end, isPlacingStart,
                   isDrawingObstacles, isRunning, startBtnDisabled, timers>>

\* 'startBtn' click: a disabled button dispatches no click.
StartSearch ==
    /\ ~startBtnDisabled
    /\ Len(timers) < MaxTimers
    /\ LET r == startPathfinding(This)
       IN  /\ Store(r)
           /\ timers' = IF r.pc = "await"
                        THEN Append(timers, [reset |-> FALSE])
                        ELSE timers
    /\ UNCHANGED <<cols, rows, movingObstacles, start, end, isPlacingStart, isDrawingObstacles,
                   animationEnabled>>

\* The animation delay of the longest-suspended loop expires and the loop goes on.
TimerFire ==
    /\ timers # <<>>
    /\ LET r == searchLoop(This)
       IN  /\ Store(r)
           /\ timers' = IF r.pc = "await"
                        THEN Append(Tail(timers), Head(timers))
                        ELSE Tail(timers)
    /\ UNCHANGED <<cols, rows, movingObstacles, start, end, isPlacingStart, isDrawingObstacles,
                   animationEnabled>>

\* ------------------------------------------------- moving obstacles
\* The moving-obstacle variant of the visualizer, after the specification's
\* sections 3 (MovingObstacle), 4.2 (Moving-Obstacle Simulator) and 4.3 step 2d.
\* An obstacle is [x, y, dx, dy]; its speed throttle only decides which
\* animation ticks move it, so a tick here is one that moves the obstacles.

\* occupies(x, y): some obstacle's position is the cell.
occupies(c) ==
    \E i \in 1 .. Len(movingObstacles) : movingObstacles[i].x = c[1] /\ movingObstacles[i].y = c[2]

\* One obstacle moved one grid unit along (dx, dy), with the boundary bounce:
\* the offending axis direction inverts and the position is clamped.
stepObstacle(o) ==
    LET nx == o.x + o.dx
        ny == o.y + o.dy
        outX == nx < 0 \/ nx > cols - 1
        outY == ny < 0 \/ ny > rows - 1
    IN  [x  |-> IF nx < 0 THEN 0 ELSE IF nx > cols - 1 THEN cols - 1 ELSE nx,
         y  |-> IF ny < 0 THEN 0 ELSE IF ny > rows - 1 THEN rows - 1 ELSE ny,
         dx |-> IF outX THEN -o.dx ELSE o.dx,
         dy |-> IF outY THEN -o.dy ELSE o.dy]

\* step(), advancing every obstacle; it runs on animation ticks whatever the
\* search does.
Tick ==
    /\ movingObstacles # <<>>
    /\ movingObstacles' = [i \in DOMAIN movingObstacles |-> stepObstacle(movingObstacles[i])]
    /\ report' = "none"
    /\ UNCHANGED <<cols, rows, grid, openSet, closedSet, path, start, end, isPlacingStart,
                   isDrawingObstacles, isRunning, animationEnabled, startBtnDisabled, timers>>

\* "spawn moving obstacles": obstacles at random cells with random diagonal
\* headings.
SpawnMovingObstacles ==
    /\ movingObstacles = <<>>
    /\ movingObstacles' \in [1 .. SpawnCount ->
                               [x : 0 .. cols - 1, y : 0 .. rows - 1, dx : {-1, 1}, dy : {-1, 1}]]
    /\ report' = "none"
    /\ UNCHANGED <<cols, rows, grid, openSet, closedSet, path, start, end, isPlacingStart,
                   isDrawingObstacles, isRunning, animationEnabled, startBtnDisabled, timers>>

\* The neighbors of the expansion step: the grid's neighbor query, filtered
\* additionally by occupies.
LetThroughAll(c) == TRUE

LetThrough(c) == ~occupies(c)

freeNeighbors(gr, node) == SelectSeq(getNeighbors(gr, node), LetThrough)

\* One iteration of the while loop with the filtered neighbors.
expandMoving(s) ==
    LET currentIndex == lowestIndex(s.grid, s.openSet, 2, 1)
        current == s.openSet[currentIndex]
        s1 == [s EXCEPT !.openSet = splice(s.openSet, currentIndex),
                        !.closedSet = Append(s.closedSet, current),
                        !.grid[current].isExplored = TRUE]
    IN  IF current = end
        THEN [reconstructPath(s1, current) EXCEPT !.isRunning = FALSE,
                                                  !.startBtnDisabled = FALSE,
                                                  !.report = "success",
                                                  !.pc = "returned"]
        ELSE checkNeighbors(s1, current, freeNeighbors(s1.grid, current), 1)

\* The animated while loop of the variant: to the next await or to the return.
searchLoopMoving(s) ==
    IF Len(s.openSet) = 0
    THEN [s EXCEPT !.report = "nopath", !.isRunning = FALSE,
                   !.startBtnDisabled = FALSE, !.pc = "returned"]
    ELSE LET t == expandMoving(s)
         IN  IF t.pc = "returned" THEN t ELSE [t EXCEPT !.pc = "await"]

\* 'startBtn' click in the variant, animation on.
StartSearchMoving ==
    /\ ~startBtnDisabled
    /\ timers = <<>>
    /\ start # null /\ end # null
    /\ LET c  == clearPath(This)
           hh == heuristic(start, end)
           s1 == [c EXCEPT !.isRunning = TRUE, !.startBtnDisabled = TRUE,
                           !.openSet = <<start>>,
                           !.grid[start].g = 0, !.grid[start].h = hh, !.grid[start].f = hh]
           r  == searchLoopMoving(s1)
       IN  /\ Store(r)
           /\ timers' = IF r.pc = "await" THEN <<[reset |-> FALSE]>> ELSE timers
    /\ UNCHANGED <<cols, rows, movingObstacles, start, end, isPlacingStart,
                   isDrawingObstacles, animationEnabled>>

\* The animation delay expires and the variant's loop goes on.
TimerFireMoving ==
    /\ timers # <<>>
    /\ LET r == searchLoopMoving(This)
       IN  /\ Store(r)
           /\ timers' = IF r.pc = "await" THEN timers ELSE <<>>
    /\ UNCHANGED <<cols, rows, movingObstacles, start, end, isPlacingStart,
                   isDrawingObstacles, animationEnabled>>

\* ------------------------------------------------------ specifications
\* new AStarVisualizer()
Init ==
    /\ cols = UiCols
    /\ rows = UiRows
    /\ grid = initGrid(UiCols, UiRows)
    /\ openSet = <<>>
    /\ closedSet = <<>>
    /\ path = <<>>
    /\ start = null
    /\ end = null
    /\ isPlacingStart = TRUE
    /\ isDrawingObstacles = FALSE
    /\ isRunning = FALSE
    /\ animationEnabled = TRUE
    /\ startBtnDisabled = FALSE
    /\ timers = <<>>
    /\ report = "none"
    /\ movingObstacles = <<>>

Next ==
    \/ MouseDown
    \/ MouseMove
    \/ MouseUp
    \/ ClearPath
    \/ ClearAll
    \/ RandomObstacles
    \/ ToggleAnimation
    \/ StartSearch
    \/ TimerFire

Spec == Init /\ [][Next]_vars

\* A grid as the user's edits leave it (start placed, end placed, any obstacle
\* layout; a square canvas or a single-row corridor).
InitLayouts ==
    /\ cols = SearchCols
    /\ rows \in {1, SearchRows}
    /\ \E obstacles \in SUBSET Nodes, s \in Nodes, e \in Nodes :
           /\ s # e
           /\ start = s
           /\ end = e
           /\ grid = [n \in Nodes |-> [Node EXCEPT !.isObstacle = n \in obstacles,
                                               !.isStart = (n = s),
                                               !.isEnd = (n = e)]]

\* The obstacle-free square canvas with the start in the first corner and the
\* end in the opposite one, searched with the animation on (one expansion per
\* task).
InitScenario ==
    /\ cols = ScenarioSize
    /\ rows = ScenarioSize
    /\ start = <<0, 0>>
    /\ end = <<ScenarioSize - 1, ScenarioSize - 1>>
    /\ grid = [n \in Nodes |-> [Node EXCEPT !.isStart = (n = start),
                                            !.isEnd = (n = end)]]

\* An edited grid on which then only searches run.
InitSearch ==
    /\ \/ InitLayouts /\ animationEnabled \in BOOLEAN
       \/ InitScenario /\ animationEnabled = TRUE
    /\ openSet = <<>>
    /\ closedSet = <<>>
    /\ path = <<>>
    /\ isPlacingStart = FALSE
    /\ isDrawingObstacles = FALSE
    /\ isRunning = FALSE
    /\ startBtnDisabled = FALSE
    /\ timers = <<>>
    /\ report = "none"
    /\ movingObstacles = <<>>

NextSearch ==
    \/ StartSearch
    \/ TimerFire

\* Every pending animation delay expires (the event loop runs each setTimeout
\* callback): weak fairness of TimerFire, WF_vars(TimerFire), with
\* ENABLED <<TimerFire>>_vars written out as what it is, timers # <<>> (a
\* resumed loop always closes a cell or returns).
TimerFairness == []<>(timers = <<>>) \/ []<><<TimerFire>>_vars

\* The searches alone, under that fairness.
SpecSearchFair == InitSearch /\ [][NextSearch]_vars /\ TimerFairness

SpecSearch == InitSearch /\ [][NextSearch]_vars


\* An empty square canvas with the start in the first corner and the end in the
\* opposite one, animation on, no moving obstacle spawned yet.
InitMoving ==
    /\ cols = SearchCols
    /\ rows = SearchRows
    /\ start = <<0, 0>>
    /\ end = <<SearchCols - 1, SearchRows - 1>>
    /\ grid = [n \in Nodes |-> [Node EXCEPT !.isStart = (n = start), !.isEnd = (n = end)]]
    /\ openSet = <<>>
    /\ closedSet = <<>>
    /\ path = <<>>
    /\ isPlacingStart = FALSE
    /\ isDrawingObstacles = FALSE
    /\ isRunning = FALSE
    /\ animationEnabled = TRUE
    /\ startBtnDisabled = FALSE
    /\ timers = <<>>
    /\ report = "none"
    /\ movingObstacles = <<>>

NextMoving == SpawnMovingObstacles \/ Tick \/ StartSearchMoving \/ TimerFireMoving

\* Searches while moving obstacles are spawned and advance.
SpecMoving == InitMoving /\ [][NextMoving]_vars

\* ---------------------------------------------------------- properties
\* Reference definitions the properties are stated with; none is used by the model.
Adjacent(a, b) ==
    \/ a[1] = b[1] /\ (a[2] - b[2] = 1 \/ b[2] - a[2] = 1)
    \/ a[2] = b[2] /\ (a[1] - b[1] = 1 \/ b[1] - a[1] = 1)

\* Breadth-first search from `frontier` (at distance d) over the cells whose
\* isObstacle is false: the number of steps to `target`, or -1 when no walk
\* over such cells leads there.  The cell the walk starts on is where the
\* searcher already stands; its own flag is not consulted.
RECURSIVE bfs(_, _, _, _)
bfs(frontier, visited, target, d) ==
    IF target \in frontier THEN d
    ELSE LET nxt == {n \in Nodes \ visited :
                        ~grid[n].isObstacle /\ \E m \in frontier : Adjacent(m, n)}
         IN  IF nxt = {} THEN -1 ELSE bfs(nxt, visited \cup nxt, target, d + 1)

ShortestDistance == bfs({start}, {start}, end, 0)

EndReachable == start # null /\ end # null /\ ShortestDistance >= 0

Finished == report \in {"success", "nopath"}

\* C1: on a static obstacle layout where the end is reachable from the start over
\* non-obstacle 4-connected cells, an uninterrupted search never ends with "no
\* path", and when it ends the path it stored has as many edges as the
\* breadth-first distance from start to end.
C1_ShortestPathFound ==
    EndReachable =>
        /\ report # "nopath"
        /\ (timers # <<>> => openSet # <<>>)
        /\ (report = "success" => Len(path) - 1 = ShortestDistance)

\* C1 witness: a search succeeded with a path that had to go round obstacles
\* (longer than the Manhattan distance).
C1_Witness ==
    /\ report = "success"
    /\ Len(path) - 1 = ShortestDistance
    /\ ShortestDistance > heuristic(start, end)

\* C6: where the end is not reachable from the start over non-obstacle cells, an
\* uninterrupted search never reports success, and once its loop has returned
\* the result is "no path".
C6_UnreachableGivesNoPath ==
    (start # null /\ end # null /\ ~EndReachable) =>
        /\ report # "success"
        /\ (closedSet # <<>> /\ timers = <<>> => report = "nopath")

\* C6 witness: start in the middle, obstacles on all 4 sides, "no path" reported.
C6_Witness ==
    /\ report = "nopath"
    /\ start = <<1, 1>>
    /\ \A n \in Nodes : Adjacent(n, start) => grid[n].isObstacle
    /\ Cardinality({n \in Nodes : Adjacent(n, start)}) = 4
    /\ ~grid[end].isObstacle

\* C6, the corridor case: a single row, one obstacle between start and end,
\* "no path" reported.
C6_CorridorReached ==
    /\ rows = 1
    /\ report = "nopath"
    /\ Cardinality({n \in Nodes : grid[n].isObstacle}) = 1
    /\ \E n \in Nodes : /\ grid[n].isObstacle
                        /\ \/ start[1] < n[1] /\ n[1] < end[1]
                           \/ end[1] < n[1] /\ n[1] < start[1]

NoRepeat(seq) == \A i, j \in 1 .. Len(seq) : seq[i] = seq[j] => i = j

\* The stored path is the end's parent chain, start first.
PathIsParentChain ==
    /\ Len(path) >= 1
    /\ path[1] = start
    /\ path[Len(path)] = end
    /\ grid[path[1]].parent = null
    /\ \A i \in 2 .. Len(path) : grid[path[i]].parent = path[i - 1]
    /\ \A i \in 2 .. Len(path) : Adjacent(path[i - 1], path[i])
    /\ NoRepeat(path)

\* C2: whenever a search reports success, the stored path is the reversed parent
\* chain of the end cell, from the start cell to the end cell, its consecutive
\* cells cardinally adjacent, no cell twice, and no cell on it an obstacle.
C2_SuccessPathWellFormed ==
    report = "success" =>
        /\ PathIsParentChain
        /\ \A i \in 1 .. Len(path) : ~grid[path[i]].isObstacle

\* C2, the part the code keeps: the same with the start cell's own obstacle flag
\* left out.
C2_SuccessPathShape ==
    report = "success" =>
        /\ PathIsParentChain
        /\ \A i \in 2 .. Len(path) : ~grid[path[i]].isObstacle

\* C3: whenever "no path" is reported, the end cell is not reachable from the
\* start cell over non-obstacle cells.
C3_NoPathOnlyWhenUnreachable ==
    report = "nopath" => ~EndReachable

\* C4: at most one search loop has been started and has not yet returned.
C4_AtMostOneSearchLoop ==
    Len(timers) <= 1

\* C5: a search loop that was suspended when reset path or reset all was clicked
\* expands nothing when it resumes: closed set, path and every cell's fields
\* stay as they are.
C5_ResetAbortsSearch ==
    [][(timers # <<>> /\ Head(timers).reset /\ TimerFire) =>
          (closedSet' = closedSet /\ path' = path /\ grid' = grid)]_vars

\* C7: no cell is both an endpoint and an obstacle.
C7_EndpointNeverObstacle ==
    \A n \in Nodes : (grid[n].isStart \/ grid[n].isEnd) => ~grid[n].isObstacle

\* C8: at most one cell has isStart and at most one has isEnd; a set start (end)
\* reference is the one cell carrying the flag, an unset one means no cell
\* carries it.
C8_UniqueEndpoints ==
    /\ \A n \in Nodes : grid[n].isStart <=> (start # null /\ n = start)
    /\ \A n \in Nodes : grid[n].isEnd <=> (end # null /\ n = end)
    /\ start \in Nodes \cup {null}
    /\ end \in Nodes \cup {null}

\* C8 witness: both endpoints are placed, each carries its flag, and a search
\* has run on them.
C8_Witness ==
    /\ start # null
    /\ end # null
    /\ grid[start].isStart
    /\ grid[end].isEnd
    /\ closedSet # <<>>

\* C9: start search with the start or the end unset reports the missing
\* endpoints and leaves open set, closed set, path, every cell's fields and the
\* running flag unchanged.
C9_MissingEndpointsRejected ==
    [][((start = null \/ end = null) /\ StartSearch) =>
          /\ report' = "missing"
          /\ UNCHANGED <<grid, openSet, closedSet, path, isRunning, timers>>]_vars

\* C9 witness: the missing-endpoints report was made with the start placed and
\* the end not.
C9_Witness ==
    report = "missing" /\ start # null /\ end = null

\* C10: start and end are never the same cell, and a mouse-down on the start
\* cell when the end is to be placed changes no field.
C10_StartDiffersFromEnd ==
    /\ [](start # null /\ end # null => start # end)
    /\ [][(~isRunning /\ ~isPlacingStart /\ end = null /\ start # null
              /\ handleMouseDown(start)) =>
             UNCHANGED <<grid, start, end, openSet, closedSet, path, isPlacingStart,
                         isDrawingObstacles, isRunning>>]_vars

\* C10 witness: a search is running between two distinct endpoints.
C10_Witness ==
    isRunning /\ start # null /\ end # null /\ start # end /\ openSet # <<>>

\* The fields that hold a search's state.
SearchState == <<openSet, closedSet, path, isRunning, timers>>

\* C11: a mouse-down or a mouse-move received while the running flag is true
\* changes no cell's fields, neither endpoint reference and no search state.
C11_NoEditWhileRunning ==
    [][(isRunning /\ (MouseDown \/ MouseMove)) =>
          UNCHANGED <<grid, start, end, isPlacingStart, isDrawingObstacles,
                      SearchState>>]_vars

\* C11 witness: the running flag is true while obstacle drawing is still on (the
\* mouse button went down before the search was started), so only the running
\* test keeps a mouse-move from painting.
C11_Witness ==
    isRunning /\ isDrawingObstacles /\ timers # <<>>

\* C12: random obstacles clicked while a search loop is suspended changes no
\* cell's obstacle flag and leaves that search's open set, closed set and cost
\* fields as they are.
C12_RandomizeRejectedWhileRunning ==
    [][(isRunning /\ timers # <<>> /\ RandomObstacles) =>
          /\ \A n \in Nodes : grid'[n].isObstacle = grid[n].isObstacle
          /\ UNCHANGED <<openSet, closedSet>>
          /\ \A n \in Nodes : /\ grid'[n].g = grid[n].g
                              /\ grid'[n].h = grid[n].h
                              /\ grid'[n].f = grid[n].f]_vars

\* C13: reset path empties open set, closed set and path, zeroes g, h, f, clears
\* parent, isPath, isExplored and isFrontier on every cell, and leaves every
\* cell's isObstacle, isStart, isEnd and both endpoint references unchanged.
C13_ResetPathEffect ==
    [][ClearPath =>
          /\ openSet' = <<>> /\ closedSet' = <<>> /\ path' = <<>>
          /\ \A n \in Nodes :
                /\ grid'[n].g = 0 /\ grid'[n].h = 0 /\ grid'[n].f = 0
                /\ grid'[n].parent = null
                /\ ~grid'[n].isPath /\ ~grid'[n].isExplored /\ ~grid'[n].isFrontier
                /\ grid'[n].isObstacle = grid[n].isObstacle
                /\ grid'[n].isStart = grid[n].isStart
                /\ grid'[n].isEnd = grid[n].isEnd
          /\ UNCHANGED <<start, end>>]_vars

\* C13 witness: a reset reached a suspended search (its loop has the reset to
\* observe) on a grid with endpoints and an obstacle, and everything the search
\* wrote is gone.
C13_Witness ==
    /\ timers # <<>> /\ Head(timers).reset
    /\ start # null /\ end # null
    /\ \E n \in Nodes : grid[n].isObstacle
    /\ openSet = <<>> /\ closedSet = <<>>
    /\ \A n \in Nodes : grid[n].parent = null /\ ~grid[n].isExplored

\* The state reset all leaves: no obstacle, no endpoint, no search data.
Cleared ==
    /\ grid = initGrid(cols, rows)
    /\ start = null /\ end = null
    /\ openSet = <<>> /\ closedSet = <<>> /\ path = <<>>

\* C14: reset all leaves the cleared state, and reset all applied to the state it
\* leaves gives that state again.
C14_ResetAllIdempotent ==
    [][ClearAll =>
          /\ Cleared'
          /\ (clearAll(This).grid = grid)'
          /\ (clearAll(This).openSet = openSet)'
          /\ (clearAll(This).closedSet = closedSet)'
          /\ (clearAll(This).path = path)'
          /\ (clearAll(This).isRunning = isRunning)'
          /\ (clearAll(This).startBtnDisabled = startBtnDisabled)'
          /\ isPlacingStart']_vars

\* C14 witness: the cleared state reached from a search in progress (a loop is
\* still suspended and has the reset to observe).
C14_Witness ==
    Cleared /\ timers # <<>> /\ Head(timers).reset /\ isPlacingStart

\* The search of the present layout from a grid no search has touched: only the
\* obstacle and endpoint flags are taken from the grid, and the loop is run to
\* its return without regard to the animation delay.
RECURSIVE runToReturn(_)
runToReturn(s) == IF s.pc = "returned" THEN s ELSE runToReturn(searchLoop(s))

Untouched ==
    [This EXCEPT !.grid = [n \in Nodes |-> [Node EXCEPT !.isObstacle = grid[n].isObstacle,
                                                        !.isStart = grid[n].isStart,
                                                        !.isEnd = grid[n].isEnd]],
                 !.openSet = <<>>, !.closedSet = <<>>, !.path = <<>>,
                 !.isRunning = FALSE, !.startBtnDisabled = FALSE]

FirstSearch == runToReturn(beginSearch(Untouched))

\* C15: every uninterrupted search of an edited layout, animated or instant,
\* the first one or one started after an earlier search finished, ends with the
\* path, the explored order (the closed set's order), the result and the grid
\* of the first search of that layout.
C15_SearchDeterministic ==
    (Finished /\ cols = SearchCols) =>
        /\ path = FirstSearch.path
        /\ closedSet = FirstSearch.closedSet
        /\ report = FirstSearch.report
        /\ grid = FirstSearch.grid

\* C15 witness: an animated search finished with a path round an obstacle after
\* exploring cells off the path.
C15_Witness ==
    /\ report = "success"
    /\ animationEnabled
    /\ \E n \in Nodes : grid[n].isObstacle
    /\ Len(closedSet) > Len(path)
    /\ closedSet = FirstSearch.closedSet

Manhattan(a, b) ==
    (IF a[1] > b[1] THEN a[1] - b[1] ELSE b[1] - a[1])
    + (IF a[2] > b[2] THEN a[2] - b[2] ELSE b[2] - a[2])

\* C16: on a grid without obstacles an uninterrupted search never ends "no
\* path", the path it stores has Manhattan-distance many edges, and no more
\* cells were explored than the grid has.
C16_NoObstaclesManhattan ==
    (start # null /\ end # null /\ \A n \in Nodes : ~grid[n].isObstacle) =>
        /\ report # "nopath"
        /\ Len(closedSet) <= cols * rows
        /\ (report = "success" => Len(path) - 1 = Manhattan(start, end))

\* C16 witness: the 10x10 scenario, start (0,0), end (9,9): path of 18 edges,
\* at most 100 cells explored.
C16_Witness ==
    /\ cols = 10 /\ rows = 10
    /\ start = <<0, 0>> /\ end = <<9, 9>>
    /\ \A n \in Nodes : ~grid[n].isObstacle
    /\ report = "success"
    /\ Len(path) - 1 = 18
    /\ Len(closedSet) <= 100

\* C17: the cell a resumed loop moves to the closed set and marks explored has
\* the least f of the open set as the step finds it, and every open-set entry
\* before it has a strictly greater f.
C17_ExpandsEarliestMinF ==
    [][(TimerFire /\ openSet # <<>>) =>
          /\ Len(closedSet') > Len(closedSet)
          /\ LET c == closedSet'[Len(closedSet) + 1]
             IN  /\ grid'[c].isExplored
                 /\ \E i \in 1..Len(openSet) :
                       /\ openSet[i] = c
                       /\ \A j \in 1..Len(openSet) : grid[openSet[j]].f >= grid[c].f
                       /\ \A j \in 1..(i - 1) : grid[openSet[j]].f > grid[c].f]_vars

\* C17 witness: a suspended search that has expanded cells and whose open set
\* holds its least f twice, the first time not at the head.
C17_Witness ==
    /\ timers # <<>>
    /\ closedSet # <<>>
    /\ \E i, j \in 1..Len(openSet) :
          /\ 1 < i /\ i < j
          /\ grid[openSet[i]].f = grid[openSet[j]].f
          /\ \A k \in 1..Len(openSet) : grid[openSet[k]].f >= grid[openSet[i]].f
          /\ grid[openSet[1]].f > grid[openSet[i]].f

\* C18: in every reachable state the open set and the closed set hold no cell
\* twice and share no cell.
C18_SetsDisjointNoDuplicates ==
    /\ NoRepeat(openSet)
    /\ NoRepeat(closedSet)
    /\ \A i \in 1..Len(openSet) : ~includes(closedSet, openSet[i])

\* C18 witness: two loops are suspended on the same sets (a reset re-enabled
\* Start during a search), with cells in both sets.
C18_Witness ==
    /\ Len(timers) = 2
    /\ openSet # <<>>
    /\ Len(closedSet) >= 2

C20_ClosedCostIsShortest ==
    start # null =>
        \A i \in 1..Len(closedSet) :
            grid[closedSet[i]].g = bfs({start}, {start}, closedSet[i], 0)

\* C20 witness: a closed cell two or more steps from the start whose distance
\* exceeds the Manhattan distance (the obstacles force a detour).
C20_Witness ==
    /\ start # null
    /\ \E i \in 1..Len(closedSet) :
          /\ grid[closedSet[i]].g > Manhattan(start, closedSet[i])
          /\ grid[closedSet[i]].g = bfs({start}, {start}, closedSet[i], 0)

\* C21: an uninterrupted search expands no cell twice and so at most cols x rows
\* cells, a started search reaches its result (success or "no path"), and the
\* running flag is false once it has.
C21_SearchTerminates ==
    /\ [](Len(closedSet) <= cols * rows /\ NoRepeat(closedSet))
    /\ [](Finished => ~isRunning)
    /\ (isRunning ~> (Finished /\ ~isRunning))

\* C21 witness: a search that ended "no path" after expanding every cell it
\* could reach, three or more of them.
C21_Witness ==
    /\ report = "nopath"
    /\ ~isRunning
    /\ Len(closedSet) >= 3
    /\ openSet = <<>>

\* C22: a Start click with the animation off runs the whole search within that
\* one task: it leaves a result (or the missing-endpoint alert), the running
\* flag false and no loop suspended that was not suspended before; and the
\* running flag is never seen true without a suspended (animated) loop.
C22_InstantSearchAtomic ==
    /\ [][(StartSearch /\ ~animationEnabled) =>
             /\ ~isRunning'
             /\ ~startBtnDisabled'
             /\ timers' = timers
             /\ report' \in {"missing", "success", "nopath"}]_vars
    /\ [](isRunning => timers # <<>>)

\* C22 witness: an instant search has just ended with a path after exploring
\* three or more cells, no loop suspended.
C22_Witness ==
    /\ ~animationEnabled
    /\ report = "success"
    /\ ~isRunning
    /\ timers = <<>>
    /\ Len(closedSet) >= 3

\* The cell c as a one-element list when it lies on the grid and is no obstacle.
Passable(c) == IF c \in Nodes /\ ~grid[c].isObstacle THEN <<c>> ELSE <<>>

C24_SearchKeepsLayout ==
    [][(StartSearch \/ TimerFire) =>
          /\ UNCHANGED <<start, end>>
          /\ \A n \in Nodes : /\ grid'[n].isObstacle = grid[n].isObstacle
                              /\ grid'[n].isStart = grid[n].isStart
                              /\ grid'[n].isEnd = grid[n].isEnd]_vars

\* C24 witness: a search has ended with a path that runs over a cell between
\* start and end, on a grid with an obstacle.
C24_Witness ==
    /\ report = "success"
    /\ \E n \in Nodes : grid[n].isObstacle
    /\ \E n \in Nodes : grid[n].isPath /\ ~grid[n].isObstacle
    /\ grid[start].isStart /\ grid[end].isEnd

\* C25: a mouse-down that places the start (placing mode, not running, on the
\* canvas) makes the clicked cell the start and the only cell with isStart, and
\* in the state after it the path is empty and no cell has isPath, isExplored or
\* isFrontier; while running, a mouse-down moves no start.
C25_PlaceStart ==
    [][\A pos \in Nodes :
          handleMouseDown(pos) =>
             /\ (isPlacingStart /\ ~isRunning) =>
                   /\ start' = pos
                   /\ \A n \in Nodes : grid'[n].isStart <=> (n = pos)
                   /\ path' = <<>>
                   /\ \A n \in Nodes : /\ ~grid'[n].isPath
                                       /\ ~grid'[n].isExplored
                                       /\ ~grid'[n].isFrontier
             /\ isRunning => (start' = start /\ grid' = grid)]_vars

\* C25 witness: the start has been placed (the end not yet) after a Clear All
\* that interrupted a search whose loop is still suspended.
C25_Witness ==
    /\ start # null
    /\ end = null
    /\ ~isPlacingStart
    /\ grid[start].isStart
    /\ timers # <<>>
    /\ Head(timers).reset

C27_RunningMirrorsLoop == isRunning <=> (timers # <<>>)

\* The cells reached from n by following parent links, n first; k bounds the walk.
RECURSIVE Ancestors(_, _)
Ancestors(n, k) ==
    IF k = 0 \/ grid[n].parent = null THEN <<n>>
    ELSE <<n>> \o Ancestors(grid[n].parent, k - 1)

\* C28: the start's parent is none, and every cell of the open or closed set
\* reaches the start over its parent links in exactly g steps, visiting no
\* cell twice, each link joining adjacent cells; its f is g + h and its h is
\* the Manhattan distance to the end.
C28_ParentTree ==
    /\ (start # null /\ (openSet # <<>> \/ closedSet # <<>>)) => grid[start].parent = null
    /\ \A n \in Nodes :
          (includes(openSet, n) \/ includes(closedSet, n)) =>
             LET chain == Ancestors(n, cols * rows)
             IN  /\ start # null /\ end # null
                 /\ chain[Len(chain)] = start
                 /\ Len(chain) - 1 = grid[n].g
                 /\ NoRepeat(chain)
                 /\ \A i \in 1..(Len(chain) - 1) : Adjacent(chain[i], chain[i + 1])
                 /\ grid[n].f = grid[n].g + grid[n].h
                 /\ grid[n].h = Manhattan(n, end)

\* C28 witness: a suspended search with a closed cell and an open cell two
\* links from the start.
C28_Witness ==
    /\ timers # <<>>
    /\ \E i \in 1..Len(openSet) : grid[openSet[i]].g = 2
    /\ \E i \in 1..Len(closedSet) : grid[closedSet[i]].g = 1

==========================================================================
